---- MODULE Spec2Model ----
(***************************************************************************)
(* Comment lifecycle of server/models/comments.js: postNewComment,         *)
(* updateComment, deleteComment, the objection hooks ($beforeInsert,       *)
(* $beforeUpdate, $afterInsert, afterUpdate), indexComments and            *)
(* sendNotify.  Every `await` of the source is an interleaving point: the  *)
(* code between two awaits is one action.                                  *)
(***************************************************************************)
EXTENDS Integers, Sequences, FiniteSets, TLC

(***************************************************************************)
(* Bounds of the model.                                                    *)
(***************************************************************************)
\* longest content string drawn as an input
MaxLen == 3
\* number of comment rows the table can receive (auto-increment ids 1..MaxComments)
MaxComments == 2
\* last value of the wall clock
MaxClock == 2
\* number of lifecycle calls that may be in flight at the same time
MaxCalls == 1

(***************************************************************************)
(* Strings.  A content string is a sequence of characters; " " is the      *)
(* whitespace character _.trim removes.                                    *)
(***************************************************************************)
Chars == {" ", "a"}

RECURSIVE StringsOfLen(_)
StringsOfLen(n) ==
  IF n = 0 THEN {<<>>}
  ELSE {Append(s, ch) : s \in StringsOfLen(n - 1), ch \in Chars}

Strings == UNION {StringsOfLen(n) : n \in 0..MaxLen}

RECURSIVE TrimStart(_)
TrimStart(s) ==
  IF s # <<>> /\ Head(s) = " " THEN TrimStart(Tail(s)) ELSE s

RECURSIVE TrimEnd(_)
TrimEnd(s) ==
  IF s # <<>> /\ s[Len(s)] = " " THEN TrimEnd(SubSeq(s, 1, Len(s) - 1)) ELSE s

\* the content strings the clients of Spec send: " a", "aa", "aaa"
Contents == {<<" ", "a">>, <<"a", "a">>, <<"a", "a", "a">>}

\* a trim that forgets the trailing whitespace
trimStartOnly(s) == TrimStart(s)

\* _.trim(content): leading and trailing whitespace removed
trim(s) == TrimEnd(TrimStart(s))

(***************************************************************************)
(* Guest identity fields.  A field value is Undefined or a string, kept    *)
(* as the facts validate.js reads from it: its length, whether it matches  *)
(* the email pattern, whether it is whitespace only, whether it has upper  *)
(* case letters.                                                           *)
(***************************************************************************)
Undefined == [kind |-> "undefined"]
Str(n, pat, blank, upper) ==
  [kind |-> "string", len |-> n, pattern |-> pat, blank |-> blank, upper |-> upper]

\* "not-an-email", "A@B.CO", a well-formed address of 256 characters
EmailNotAnEmail == Str(12, FALSE, FALSE, FALSE)
EmailGood == Str(6, TRUE, FALSE, TRUE)
EmailLong == Str(256, TRUE, FALSE, FALSE)
GuestEmails == {Undefined, EmailNotAnEmail, EmailGood, EmailLong}

\* "", "a", "ab"
NameEmpty == Str(0, FALSE, TRUE, FALSE)
NameShort == Str(1, FALSE, FALSE, FALSE)
NameGood == Str(2, FALSE, FALSE, FALSE)
GuestNames == {Undefined, NameEmpty, NameShort, NameGood}

\* _.toLower(value): undefined becomes the empty string, case is folded,
\* length and (case-insensitive) pattern match are kept
toLower(v) ==
  IF v.kind = "undefined" THEN Str(0, FALSE, TRUE, FALSE)
  ELSE [v EXCEPT !.upper = FALSE]

\* the sentinel id of the guest user
GuestId == 2
\* length limits of the guest fields
MaxFieldLen == 255
MinNameLen == 2

\* validate.js `email: true`: undefined passes, otherwise the pattern decides
EmailRule(v) ==
  IF v.kind # "undefined" /\ ~v.pattern THEN <<"Email is not a valid email">> ELSE <<>>

\* validate.js `length: {minimum, maximum}`: undefined passes
LengthRule(attr, v, min, max) ==
  IF v.kind = "undefined" THEN <<>>
  ELSE IF v.len < min THEN <<attr \o " is too short">>
  ELSE IF v.len > max THEN <<attr \o " is too long">>
  ELSE <<>>

\* validate.js `presence: {allowEmpty: false}`
PresenceRule(v) ==
  IF v.kind = "undefined" \/ v.blank THEN <<"Name can't be blank">> ELSE <<>>

\* a validation without the email constraint
validateNameOnly(email, name) ==
  PresenceRule(name) \o LengthRule("Name", name, MinNameLen, MaxFieldLen)

\* a validation that reports the name attribute first
validateNameFirst(email, name) ==
  PresenceRule(name) \o LengthRule("Name", name, MinNameLen, MaxFieldLen)
    \o EmailRule(email) \o LengthRule("Email", email, 0, MaxFieldLen)

\* validate({email, name}, constraints, {format: 'flat'}): the messages of
\* the email attribute first, then those of the name attribute
validate(email, name) ==
  EmailRule(email) \o LengthRule("Email", email, 0, MaxFieldLen)
    \o PresenceRule(name) \o LengthRule("Name", name, MinNameLen, MaxFieldLen)

\* shortest content postNewComment accepts, after trimming
MinContentLen == 2

(***************************************************************************)
(* Users, pages and the authorization gate.                                *)
(***************************************************************************)
\* user ids: 1 an administrator, 2 the guest, 3 a registered user
UserIds == {1, 2, 3}
\* the user object of the request (name and email of the account)
UserRec(u) ==
  [id |-> u, name |-> Str(5, FALSE, FALSE, TRUE), email |-> Str(10 + u, TRUE, FALSE, FALSE)]
NoUser == [id |-> 0]

\* the pages of the wiki, and a page id that no page has
PageIds == {1}
PageIdInputs == PageIds \cup {2}
PagePath(p) == "docs/intro"
PageLocale(p) == "en"

\* process.env.NOTIFY_EMAIL
NotifyEmail == "NOTIFY_EMAIL"

(***************************************************************************)
(* State.                                                                  *)
(***************************************************************************)
VARIABLES
  comments,     \* the comments table: id -> row, for the ids that have a row
  nextId,       \* the next auto-increment id of the table
  pages,        \* the pages table: id -> [extra], for the pages that exist
  now,          \* the wall clock read by new Date()
  call,         \* per call slot: the frame of the lifecycle call in flight
  ix,           \* per call slot: the frame of the indexComments run it awaits
  req,          \* the request under test of SpecCreate (NoReq in Spec)
  grants        \* the <<user id, capability>> pairs the authorization gate grants

vars == <<comments, nextId, pages, now, call, ix, req, grants>>

\* the grants of the wiki: the administrator may do everything, the guest
\* may write comments, the registered user may do nothing
DefaultGrants == {<<1, "write:comments">>, <<1, "manage:comments">>, <<GuestId, "write:comments">>}
\* the grants of a wiki closed to guests, where registered users comment
ClosedGrants == {<<1, "write:comments">>, <<1, "manage:comments">>, <<3, "write:comments">>}

\* WIKI.auth.checkAccess(user, [cap], {path, locale}): the capability is
\* granted to the user on the wiki's pages
checkAccess(u, cap, path, locale) ==
  path = "docs/intro" /\ locale = "en" /\ <<u, cap>> \in grants


Calls == 1..MaxCalls

NoCall == [method |-> "none"]
NoMail == [status |-> "none"]
NoReq == [op |-> "none"]

\* a fresh frame of operation op called by user u: the arguments and locals
\* of the call (id, pageId, content, the user object puser, page), how it
\* ended (result, msg), and what it did: the provider method it invoked
\* (pcall), whether that mutation was committed, the id it inserted (cid),
\* the indexComments runs it started (runs), the WIKI.mail.send calls it
\* made (sends) and the message of the last one (mail), and whether
\* another call was in flight when it started (overlaps)
Frame(op, u) ==
  [op |-> op, pc |-> "idle", user |-> u, id |-> 0, pageId |-> 0,
   content |-> <<>>, puser |-> NoUser, page |-> 0, result |-> "none",
   msg |-> "", cid |-> 0, pcall |-> NoCall, runs |-> 0, sends |-> 0,
   committed |-> FALSE, mail |-> NoMail, overlaps |-> FALSE]

Idle == Frame("none", 0)

\* the call ends: it returns (res = "Ok") or throws res
Finish(f, res) ==
  [f EXCEPT !.pc = "done", !.result = res, !.content = <<>>, !.puser = NoUser,
            !.pcall = IF @ = NoCall THEN @ ELSE [@ EXCEPT !.content = <<>>, !.user = NoUser]]

\* the page metadata bag of a new page
EmptyExtra == [comment |-> <<>>, other |-> 0]

\* the frame of an indexComments run: its position, its argument and its
\* locals (existingComments as the contents it holds, page.extra, updPage),
\* and what it handed to the search engine; `again` records that the run
\* directly follows a run that resolved for the same page
NoRun ==
  [pc |-> "none", pageId |-> 0, existing |-> <<>>, extra |-> EmptyExtra,
   upd |-> <<>>, pushed |-> <<>>, error |-> "none", again |-> FALSE]

Init ==
  /\ comments = <<>>
  /\ nextId = 1
  /\ pages = [p \in PageIds |-> [extra |-> EmptyExtra]]
  /\ now = 1
  /\ call = [c \in Calls |-> Idle]
  /\ ix = [c \in Calls |-> NoRun]
  /\ req = NoReq
  /\ grants = DefaultGrants

\* WIKI.models.pages.getPageFromDb(id) / query().findById(id): the page id,
\* or 0 (a falsy value) when there is no such page
getPageFromDb(pid) == IF pid \in DOMAIN pages THEN pid ELSE 0

\* commentProvider.getPageIdFromCommentId(id): the page id of the row, or
\* 0 (a falsy value) when there is no such comment
getPageIdFromCommentId(id) == IF id \in DOMAIN comments THEN comments[id].pageId ELSE 0

(***************************************************************************)
(* indexComments(pageId) is called: the query for the page's comments is   *)
(* issued.                                                                 *)
(***************************************************************************)
\* a run started for the page after the one asked for
StartRunNextPage(pid) == [NoRun EXCEPT !.pc = "query", !.pageId = pid + 1]

\* indexComments(pageId)
StartRun(pid) == [NoRun EXCEPT !.pc = "query", !.pageId = pid]

Running(c) == ix[c].pc \notin {"none", "ok", "fail"}
Settled(c) == ix[c].pc \in {"ok", "fail"}

\* slot c can take a call: none is in flight there, nor a run of one
Free(c) == call[c].pc \in {"idle", "done"} /\ ~Running(c)

\* a call is in flight in a slot other than c
Overlaps(c) == \E d \in DOMAIN call \ {c} : call[d].pc \notin {"idle", "done"}

\* the frame of a call of operation op by user u that starts in slot c
NewFrame(c, op, u) == [Frame(op, u) EXCEPT !.overlaps = Overlaps(c)]

(***************************************************************************)
(* postNewComment, lines 75-107: guest validation, then the content check, *)
(* then the page query is issued.                                          *)
(***************************************************************************)
\* lines 127-134: the user object handed to the provider
ProviderUser(u, guestName, guestEmail) ==
  IF u = GuestId
  THEN [UserRec(u) EXCEPT !.name = guestName, !.email = guestEmail]
  ELSE UserRec(u)

postNewComment(c, u, pid, content, guestName, guestEmail) ==
  /\ Free(c)
  /\ LET validation == IF u = GuestId THEN validate(toLower(guestEmail), guestName) ELSE <<>>
         trimmed == trim(content)
         f == NewFrame(c, "create", u)
     IN call' = [call EXCEPT ![c] =
          IF Len(validation) > 0
          THEN [Finish(f, "InputInvalid") EXCEPT !.msg = validation[1]]
          ELSE IF Len(trimmed) < MinContentLen
          THEN Finish(f, "CommentContentMissing")
          ELSE [f EXCEPT !.pc = "cLoad", !.pageId = pid, !.content = trimmed,
                         !.puser = ProviderUser(u, guestName, guestEmail)]]
  /\ ix' = [ix EXCEPT ![c] = NoRun]
  /\ UNCHANGED <<comments, nextId, pages, now, req, grants>>

\* a client posts a comment
CallCreate(c) ==
  /\ req = NoReq
  /\ \E u \in UserIds, pid \in PageIdInputs, content \in Contents,
        guestName \in {NameShort, NameGood}, guestEmail \in {EmailNotAnEmail, EmailGood} :
       postNewComment(c, u, pid, content, guestName, guestEmail)

(***************************************************************************)
(* Lines 110-135 / 147-168 / 180-200: the page query resolves; absent      *)
(* page and denied capability throw, otherwise the provider is invoked.    *)
(***************************************************************************)
\* a page load that does not consult the gate
LoadPageUnchecked(c, cap, forbidden, method, next) ==
  LET f == call[c]
      page == getPageFromDb(f.pageId)
  IN call' = [call EXCEPT ![c] =
       IF page = 0 THEN Finish(f, "PageNotFound")
       ELSE [f EXCEPT !.pc = next, !.page = page,
                      !.pcall = [method |-> method, id |-> f.id, page |-> page,
                                 content |-> f.content, user |-> f.puser]]]

LoadPage(c, cap, forbidden, method, next) ==
  LET f == call[c]
      page == getPageFromDb(f.pageId)
  IN call' = [call EXCEPT ![c] =
       IF page = 0 THEN Finish(f, "PageNotFound")
       ELSE IF ~checkAccess(f.user, cap, PagePath(page), PageLocale(page))
       THEN Finish([f EXCEPT !.page = page], forbidden)
       ELSE [f EXCEPT !.pc = next, !.page = page,
                      !.pcall = [method |-> method, id |-> f.id, page |-> page,
                                 content |-> f.content, user |-> f.puser]]]

CreateLoadPage(c) ==
  /\ call[c].pc = "cLoad"
  /\ LoadPage(c, "write:comments", "CommentPostForbidden", "create", "cInsert")
  /\ UNCHANGED <<comments, nextId, pages, now, ix, req, grants>>

(***************************************************************************)
(* $beforeInsert: createdAt and updatedAt are two reads of the clock.      *)
(***************************************************************************)
beforeInsert(row, t1, t2) == [row EXCEPT !.createdAt = t1, !.updatedAt = t2]

\* the clock values a second read may give after a first read of t
LaterReads(t) == {t2 \in {t, t + 1} : t2 <= MaxClock}

(***************************************************************************)
(* commentProvider.create: the row is inserted through the Comment model   *)
(* ($beforeInsert, insert, $afterInsert); the insert resolves when         *)
(* $afterInsert has.  $afterInsert starts with indexComments(this.pageId). *)
(***************************************************************************)
NewRow(pc) ==
  [pageId |-> pc.page, content |-> pc.content, createdAt |-> 0, updatedAt |-> 0]

ProviderCreate(c) ==
  /\ call[c].pc = "cInsert"
  /\ nextId <= MaxComments
  /\ \E t2 \in LaterReads(now) :
       /\ comments' = comments @@ (nextId :> beforeInsert(NewRow(call[c].pcall), now, t2))
       /\ now' = t2
  /\ nextId' = nextId + 1
  /\ call' = [call EXCEPT ![c].pc = "aiIndex", ![c].cid = nextId, ![c].runs = @ + 1,
                          ![c].committed = TRUE]
  /\ ix' = [ix EXCEPT ![c] = StartRun(call[c].pcall.page)]
  /\ UNCHANGED <<pages, req, grants>>

\* the storage backend rejects the mutation (ProviderFailure passthrough)
ProviderFails(c) ==
  /\ call[c].pc \in {"cInsert", "uPatch", "dRemove"}
  /\ call' = [call EXCEPT ![c] = Finish(@, "ProviderFailure")]
  /\ UNCHANGED <<comments, nextId, pages, now, ix, req, grants>>

(***************************************************************************)
(* indexComments, lines 212-242.                                           *)
(***************************************************************************)
RECURSIVE Perms(_)
Perms(S) ==
  IF S = {} THEN {<<>>}
  ELSE UNION {{<<i>> \o p : p \in Perms(S \ {i})} : i \in S}

\* query().where('pageId', pageId).orderBy('createdAt', 'desc'): the ids of
\* the page's rows, newest first; rows of equal createdAt come in an order
\* the query does not fix
existingComments(pid) ==
  {p \in Perms({i \in DOMAIN comments : comments[i].pageId = pid}) :
     \A i, j \in 1..Len(p) :
       i < j => comments[p[i]].createdAt >= comments[p[j]].createdAt}

\* lines 218-222: cArray, the content of each row in the order of the query
cArray(ids) == [k \in 1..Len(ids) |-> comments[ids[k]].content]

\* line 217, `if (existingComments)`: a query result is an array, and an
\* array is truthy even when it is empty
Truthy(array) == TRUE

\* a patch that appends to the snapshot instead of replacing it
PatchedExtraAppend(extra, contents) == [extra EXCEPT !.comment = @ \o contents]

\* lines 226-229: {...page.extra, comment: cArray}
PatchedExtra(extra, contents) == [extra EXCEPT !.comment = contents]

\* the run ends: it resolves (pc "ok") or rejects with error (pc "fail")
Settle(pc, error) == [NoRun EXCEPT !.pc = pc, !.error = error]

\* lines 214-219: the comments query resolves, the page query is issued
IndexQuery(c) ==
  /\ ix[c].pc = "query"
  /\ \E ids \in existingComments(ix[c].pageId) :
       ix' = [ix EXCEPT ![c] =
                IF Truthy(ids)
                THEN [@ EXCEPT !.pc = "page", !.existing = cArray(ids)]
                ELSE Settle("ok", "none")]
  /\ UNCHANGED <<comments, nextId, pages, now, call, req, grants>>

\* lines 219-230: the page query resolves; page.extra is read (a TypeError
\* when there is no page) and the patch is issued
IndexPage(c) ==
  /\ ix[c].pc = "page"
  /\ LET page == getPageFromDb(ix[c].pageId)
     IN ix' = [ix EXCEPT ![c] =
                 IF page = 0 THEN Settle("fail", "TypeError")
                 ELSE [@ EXCEPT !.pc = "patch", !.extra = pages[page].extra]]
  /\ UNCHANGED <<comments, nextId, pages, now, call, req, grants>>

\* lines 225-233: the patch is applied to the page row, if it still exists
IndexPatch(c) ==
  /\ ix[c].pc = "patch"
  /\ pages' = IF ix[c].pageId \in DOMAIN pages
              THEN [pages EXCEPT ![ix[c].pageId].extra =
                      PatchedExtra(ix[c].extra, ix[c].existing)]
              ELSE pages
  /\ ix' = [ix EXCEPT ![c].pc = "upd", ![c].existing = <<>>, ![c].extra = EmptyExtra]
  /\ UNCHANGED <<comments, nextId, now, call, req, grants>>

\* lines 233-234: updPage is read
IndexReadUpdated(c) ==
  /\ ix[c].pc = "upd"
  /\ LET page == getPageFromDb(ix[c].pageId)
     IN ix' = [ix EXCEPT ![c].pc = "render",
                         ![c].upd = IF page = 0 THEN <<"undefined">>
                                    ELSE <<"page", pages[page].extra.comment>>]
  /\ UNCHANGED <<comments, nextId, pages, now, call, req, grants>>

\* lines 234-238: the render query resolves; pgContent.render and
\* updPage.safeContent are TypeErrors when the page is gone; otherwise the
\* snapshot is handed to the search engine
IndexRender(c) ==
  /\ ix[c].pc = "render"
  /\ ix' = [ix EXCEPT ![c] =
              IF getPageFromDb(ix[c].pageId) = 0 \/ ix[c].upd[1] = "undefined"
              THEN Settle("fail", "TypeError")
              ELSE [@ EXCEPT !.pc = "push"]]
  /\ UNCHANGED <<comments, nextId, pages, now, call, req, grants>>

\* line 238: searchEngine.updated(updPage) resolves; the run keeps the
\* snapshot it pushed: <<page id, extra.comment>>
IndexPush(c) ==
  /\ ix[c].pc = "push"
  /\ ix' = [ix EXCEPT ![c] = [Settle("ok", "none") EXCEPT !.pushed = <<ix[c].pageId, ix[c].upd[2]>>]]
  /\ UNCHANGED <<comments, nextId, pages, now, call, req, grants>>

\* line 238: searchEngine.updated(updPage) rejects
IndexPushFails(c) ==
  /\ ix[c].pc = "push"
  /\ ix' = [ix EXCEPT ![c] = Settle("fail", "SearchFailure")]
  /\ UNCHANGED <<comments, nextId, pages, now, call, req, grants>>

(***************************************************************************)
(* $afterInsert, lines 59-64, and sendNotify, lines 251-274.               *)
(***************************************************************************)
\* an $afterInsert that starts indexComments and does not await it
afterInsertForgets == FALSE

\* line 61: indexComments is awaited
afterInsertAwaits == TRUE

\* `await run`: the caller goes on when the run has settled
Awaited(awaits, c) == awaits => Settled(c)

\* lines 61-63: the run has settled; its rejection is thrown on, otherwise
\* sendNotify is called and issues its page query
AfterInsertIndexed(c) ==
  /\ call[c].pc = "aiIndex"
  /\ Awaited(afterInsertAwaits, c)
  /\ call' = [call EXCEPT ![c] =
                IF afterInsertAwaits /\ ix[c].pc = "fail" THEN Finish(@, ix[c].error)
                ELSE [@ EXCEPT !.pc = "nLoad"]]
  /\ UNCHANGED <<comments, nextId, pages, now, ix, req, grants>>

\* a message that also goes to the author of the comment
emailOptsToAuthor(page, content, author) ==
  [to |-> <<NotifyEmail, author>>, page |-> page, content |-> content, author |-> author]

\* lines 257-272: the message handed to the mailer
emailOpts(page, content, author) ==
  [to |-> <<NotifyEmail>>, page |-> page, content |-> content, author |-> author]

\* lines 252-273: the page query resolves (a TypeError when there is no
\* page); WIKI.mail.send is called and not awaited; the insert resolves
SendNotify(c) ==
  /\ call[c].pc = "nLoad"
  /\ LET f == call[c]
         page == getPageFromDb(f.pcall.page)
     IN call' = [call EXCEPT ![c] =
          IF page = 0 THEN Finish(f, "TypeError")
          ELSE Finish([f EXCEPT !.sends = @ + 1,
                                !.mail = [status |-> "pending",
                                          opts |-> emailOpts(page, f.pcall.content,
                                                             f.pcall.user.email)]],
                      "Ok")]
  /\ UNCHANGED <<comments, nextId, pages, now, ix, req, grants>>

\* the mail transport delivers the message, or fails to: the rejection of
\* the promise nobody holds reaches no caller
MailSettles(c, outcome) ==
  /\ call[c].mail.status = "pending"
  /\ call' = [call EXCEPT ![c].mail.status = outcome]
  /\ UNCHANGED <<comments, nextId, pages, now, ix, req, grants>>

(***************************************************************************)
(* updateComment, lines 141-169, with $beforeUpdate and afterUpdate.       *)
(***************************************************************************)
\* line 143: the call starts and issues getPageIdFromCommentId(id)
updateComment(c, u, id, content) ==
  /\ Free(c)
  /\ call' = [call EXCEPT ![c] =
                [NewFrame(c, "update", u) EXCEPT !.pc = "uPid", !.id = id,
                                           !.content = content, !.puser = UserRec(u)]]
  /\ ix' = [ix EXCEPT ![c] = NoRun]
  /\ UNCHANGED <<comments, nextId, pages, now, req, grants>>

CallUpdate(c) ==
  /\ req = NoReq
  /\ \E u \in UserIds, id \in 1..MaxComments, content \in Contents :
       updateComment(c, u, id, content)

\* a lookup whose result is not tested
ResolvePageIdUnchecked(c, next) ==
  call' = [call EXCEPT ![c].pc = next, ![c].pageId = getPageIdFromCommentId(call[c].id)]

\* lines 143-147 / 176-180: the lookup resolves; a falsy page id throws
\* CommentNotFound, otherwise the page query is issued
ResolvePageId(c, next) ==
  LET pageId == getPageIdFromCommentId(call[c].id)
  IN call' = [call EXCEPT ![c] =
       IF pageId = 0 THEN Finish(@, "CommentNotFound")
       ELSE [@ EXCEPT !.pc = next, !.pageId = pageId]]

UpdateResolve(c) ==
  /\ call[c].pc = "uPid"
  /\ ResolvePageId(c, "uLoad")
  /\ UNCHANGED <<comments, nextId, pages, now, ix, req, grants>>

UpdateLoadPage(c) ==
  /\ call[c].pc = "uLoad"
  /\ LoadPage(c, "manage:comments", "CommentManageForbidden", "update", "uPatch")
  /\ UNCHANGED <<comments, nextId, pages, now, ix, req, grants>>

\* $beforeUpdate: updatedAt is a read of the clock
beforeUpdate(row, t) == [row EXCEPT !.updatedAt = t]

\* commentProvider.update: the row of the id, if there is one, is patched
\* with the content through the Comment model ($beforeUpdate, update,
\* afterUpdate); afterUpdate starts with asFindQuery().select('id')
ProviderUpdate(c) ==
  /\ call[c].pc = "uPatch"
  /\ LET id == call[c].pcall.id
     IN comments' = IF id \in DOMAIN comments
                    THEN [comments EXCEPT ![id] =
                            beforeUpdate([@ EXCEPT !.content = call[c].pcall.content], now)]
                    ELSE comments
  /\ call' = [call EXCEPT ![c].pc = "auFind",
                          ![c].committed = call[c].pcall.id \in DOMAIN comments]
  /\ UNCHANGED <<nextId, pages, now, ix, req, grants>>

\* lines 67-68: the find query resolves; comment[0].id is a TypeError when
\* no row matched; otherwise getPageIdFromCommentId is issued
AfterUpdateFind(c) ==
  /\ call[c].pc = "auFind"
  /\ call' = [call EXCEPT ![c] =
                IF call[c].pcall.id \in DOMAIN comments
                THEN [@ EXCEPT !.pc = "auPid"]
                ELSE Finish(@, "TypeError")]
  /\ UNCHANGED <<comments, nextId, pages, now, ix, req, grants>>

\* lines 68-69: the lookup resolves and indexComments(pageId) is called
AfterUpdateResolve(c) ==
  /\ call[c].pc = "auPid"
  /\ call' = [call EXCEPT ![c].pc = "auIndex", ![c].runs = @ + 1]
  /\ ix' = [ix EXCEPT ![c] = StartRun(getPageIdFromCommentId(call[c].pcall.id))]
  /\ UNCHANGED <<comments, nextId, pages, now, req, grants>>

\* line 69: indexComments is awaited
afterUpdateAwaits == TRUE

\* line 69-70: the run has settled; the update resolves or rejects with it
AfterUpdateIndexed(c) ==
  /\ call[c].pc = "auIndex"
  /\ Awaited(afterUpdateAwaits, c)
  /\ call' = [call EXCEPT ![c] =
                IF afterUpdateAwaits /\ ix[c].pc = "fail" THEN Finish(@, ix[c].error)
                ELSE Finish(@, "Ok")]
  /\ UNCHANGED <<comments, nextId, pages, now, ix, req, grants>>

(***************************************************************************)
(* deleteComment, lines 174-201.                                           *)
(***************************************************************************)
deleteComment(c, u, id) ==
  /\ Free(c)
  /\ call' = [call EXCEPT ![c] =
                [NewFrame(c, "delete", u) EXCEPT !.pc = "dPid", !.id = id, !.puser = UserRec(u)]]
  /\ ix' = [ix EXCEPT ![c] = NoRun]
  /\ UNCHANGED <<comments, nextId, pages, now, req, grants>>

CallDelete(c) ==
  /\ req = NoReq
  /\ \E u \in UserIds, id \in 1..MaxComments : deleteComment(c, u, id)

DeleteResolve(c) ==
  /\ call[c].pc = "dPid"
  /\ ResolvePageId(c, "dLoad")
  /\ UNCHANGED <<comments, nextId, pages, now, ix, req, grants>>

DeleteLoadPage(c) ==
  /\ call[c].pc = "dLoad"
  /\ LoadPage(c, "manage:comments", "CommentManageForbidden", "remove", "dRemove")
  /\ UNCHANGED <<comments, nextId, pages, now, ix, req, grants>>

\* the hooks the Comment model runs after a delete query: it defines none
afterDelete(f) == Finish(f, "Ok")

\* commentProvider.remove: the row of the id is deleted through the Comment
\* model, and deleteComment returns
ProviderRemove(c) ==
  /\ call[c].pc = "dRemove"
  /\ comments' = [i \in DOMAIN comments \ {call[c].pcall.id} |-> comments[i]]
  /\ call' = [call EXCEPT ![c] =
                afterDelete([@ EXCEPT !.committed = call[c].pcall.id \in DOMAIN comments])]
  /\ UNCHANGED <<nextId, pages, now, ix, req, grants>>

(***************************************************************************)
(* indexComments called on its own (it is a public static of the model).   *)
(***************************************************************************)
\* the last run of slot c resolved, for page pid, and pushed its snapshot
Resolved(c, pid) == ix[c].pc = "ok" /\ ix[c].pushed # <<>> /\ ix[c].pushed[1] = pid

CallIndex(c) ==
  /\ req = NoReq
  /\ Free(c)
  /\ \E pid \in PageIds :
       /\ call' = [call EXCEPT ![c] =
                     [NewFrame(c, "index", 0) EXCEPT !.pc = "xIndex", !.pageId = pid, !.runs = 1]]
       /\ ix' = [ix EXCEPT ![c] = [StartRun(pid) EXCEPT !.again = Resolved(c, pid)]]
  /\ UNCHANGED <<comments, nextId, pages, now, req, grants>>

IndexReturns(c) ==
  /\ call[c].pc = "xIndex"
  /\ Settled(c)
  /\ call' = [call EXCEPT ![c] =
                Finish(@, IF ix[c].pc = "fail" THEN ix[c].error ELSE "Ok")]
  /\ UNCHANGED <<comments, nextId, pages, now, ix, req, grants>>

(***************************************************************************)
(* The environment: the clock, the page store, another writer of the page  *)
(* metadata bag.                                                           *)
(***************************************************************************)
Tick ==
  /\ now < MaxClock
  /\ now' = now + 1
  /\ UNCHANGED <<comments, nextId, pages, call, ix, req, grants>>

\* a page is deleted from the page store; its comments are not
DeletePage(p) ==
  /\ req = NoReq
  /\ p \in DOMAIN pages
  /\ pages' = [q \in DOMAIN pages \ {p} |-> pages[q]]
  /\ UNCHANGED <<comments, nextId, now, call, ix, req, grants>>

\* another writer patches a field of extra that is not the comment snapshot
WriteOther(p) ==
  /\ req = NoReq
  /\ p \in DOMAIN pages
  /\ pages[p].extra.other = 0
  /\ pages' = [pages EXCEPT ![p].extra.other = 1]
  /\ UNCHANGED <<comments, nextId, now, call, ix, req, grants>>

Step(c) ==
  \/ CallCreate(c) \/ CreateLoadPage(c) \/ ProviderCreate(c) \/ ProviderFails(c)
  \/ AfterInsertIndexed(c) \/ SendNotify(c)
  \/ CallUpdate(c) \/ UpdateResolve(c) \/ UpdateLoadPage(c) \/ ProviderUpdate(c)
  \/ AfterUpdateFind(c) \/ AfterUpdateResolve(c) \/ AfterUpdateIndexed(c)
  \/ CallDelete(c) \/ DeleteResolve(c) \/ DeleteLoadPage(c) \/ ProviderRemove(c)
  \/ CallIndex(c) \/ IndexReturns(c)
  \/ IndexQuery(c) \/ IndexPage(c) \/ IndexPatch(c) \/ IndexReadUpdated(c)
  \/ IndexRender(c) \/ IndexPush(c) \/ IndexPushFails(c)

Next ==
  \/ \E c \in Calls : Step(c)
  \/ \E c \in Calls, outcome \in {"delivered", "failed"} : MailSettles(c, outcome)
  \/ Tick
  \/ \E p \in PageIds : DeletePage(p)
  \/ \E p \in PageIds : WriteOther(p)

Spec == Init /\ [][Next]_vars


(***************************************************************************)
(* SpecCreate: one create request, drawn by the initial state from every   *)
(* user, page id, content string and guest name and email, is served (and  *)
(* served again when the client repeats it) on a wiki whose pages stay.    *)
(***************************************************************************)
CreateRequests ==
  [op : {"create"}, user : UserIds, pageId : PageIdInputs, content : Strings,
   guestName : GuestNames, guestEmail : GuestEmails]

InitCreate ==
  /\ comments = <<>>
  /\ nextId = 1
  /\ pages = [p \in PageIds |-> [extra |-> EmptyExtra]]
  /\ now = 1
  /\ call = [c \in Calls |-> Idle]
  /\ ix = [c \in Calls |-> NoRun]
  /\ req \in CreateRequests
  /\ grants \in {DefaultGrants, ClosedGrants}

CreateFromReq(c) ==
  /\ req # NoReq
  /\ postNewComment(c, req.user, req.pageId, req.content, req.guestName, req.guestEmail)

NextCreate ==
  \/ \E c \in Calls :
       \/ CreateFromReq(c) \/ CreateLoadPage(c) \/ ProviderCreate(c) \/ ProviderFails(c)
       \/ AfterInsertIndexed(c) \/ SendNotify(c)
       \/ IndexQuery(c) \/ IndexPage(c) \/ IndexPatch(c) \/ IndexReadUpdated(c)
       \/ IndexRender(c) \/ IndexPush(c) \/ IndexPushFails(c)
  \/ \E c \in Calls, outcome \in {"delivered", "failed"} : MailSettles(c, outcome)
  \/ Tick

SpecCreate == InitCreate /\ [][NextCreate]_vars

(***************************************************************************)
(* What the claims say of a request, stated on the request itself.         *)
(***************************************************************************)
\* the trimmed content has fewer than 2 characters: no two positions of s
\* hold a character that is not whitespace
ShortTrimmed(s) == \A i, j \in 1..Len(s) : (s[i] # " " /\ s[j] # " ") => i = j

\* the email is a well-formed address of at most 255 characters
EmailValid(e) == e.kind = "string" /\ e.pattern /\ e.len <= 255

\* the name is present, not blank, and of 2 to 255 characters
NameValid(n) == n.kind = "string" /\ ~n.blank /\ n.len >= 2 /\ n.len <= 255

\* the request is a guest's and its name or email fails validation
GuestInvalid(r) == r.user = GuestId /\ ~(EmailValid(r.guestEmail) /\ NameValid(r.guestName))

\* the create call of slot c has ended
CreateDone(c) == call[c].op = "create" /\ call[c].pc = "done"

\* nothing was ever persisted
NothingPersisted == comments = <<>> /\ nextId = 1

\* C1 as stated: a create whose content has trimmed length < 2 fails with
\* ContentMissing, whatever the author and the guest fields, and persists
\* no comment.
C1_AlwaysContentMissing ==
  ShortTrimmed(req.content) =>
    /\ NothingPersisted
    /\ \A c \in Calls : CreateDone(c) => call[c].result = "CommentContentMissing"

\* C1 as amended: a create whose content has trimmed length < 2 persists no
\* comment and invokes no provider method; it fails with ContentMissing
\* unless the author is the guest with a name or email that fails
\* validation, and then it fails with InputInvalid.
C1_ShortContentRejected ==
  ShortTrimmed(req.content) =>
    /\ NothingPersisted
    /\ \A c \in Calls :
         /\ call[c].pcall = NoCall
         /\ CreateDone(c) =>
              call[c].result = IF GuestInvalid(req) THEN "InputInvalid"
                               ELSE "CommentContentMissing"

\* a guest with valid name and email, on an existing page it may write to,
\* sent a content of two or more characters that trims to less than two
C1_Witness ==
  \E c \in Calls :
    /\ CreateDone(c) /\ call[c].result = "CommentContentMissing"
    /\ req.user = GuestId /\ ~GuestInvalid(req)
    /\ req.pageId \in DOMAIN pages
    /\ Len(req.content) >= 2

\* C2: a guest whose email fails validation gets InputInvalid and nothing
\* is persisted, also with valid content, an existing page and a granted
\* capability.
C2_GuestEmailInvalid ==
  (req.user = GuestId /\ ~EmailValid(req.guestEmail)) =>
    /\ NothingPersisted
    /\ \A c \in Calls :
         /\ call[c].pcall = NoCall
         /\ CreateDone(c) => call[c].result = "InputInvalid"

\* the guest's email is invalid while name, content and page are valid and
\* the gate would grant write:comments
C2_Witness ==
  \E c \in Calls :
    /\ CreateDone(c) /\ call[c].result = "InputInvalid"
    /\ req.user = GuestId /\ ~EmailValid(req.guestEmail) /\ NameValid(req.guestName)
    /\ ~ShortTrimmed(req.content)
    /\ req.pageId \in DOMAIN pages
    /\ checkAccess(req.user, "write:comments", PagePath(req.pageId), PageLocale(req.pageId))

\* the page of the request exists and the gate denies write:comments
WriteDenied(r) ==
  /\ r.pageId \in DOMAIN pages
  /\ ~checkAccess(r.user, "write:comments", PagePath(r.pageId), PageLocale(r.pageId))

\* C3 as stated: when the page exists and the gate denies write:comments,
\* create fails with PostForbidden whether the content is valid or not.
C3_AlwaysPostForbidden ==
  WriteDenied(req) =>
    \A c \in Calls : CreateDone(c) => call[c].result = "CommentPostForbidden"

\* C3 as amended: when the page exists and the gate denies write:comments,
\* create invokes no provider method and persists nothing; it fails with
\* PostForbidden when the content is valid and the guest fields, if any,
\* pass validation, with InputInvalid when the guest fields do not, and
\* with ContentMissing when the content is too short.
C3_DeniedCreateFails ==
  WriteDenied(req) =>
    /\ NothingPersisted
    /\ \A c \in Calls :
         /\ call[c].pcall = NoCall
         /\ CreateDone(c) =>
              call[c].result = IF GuestInvalid(req) THEN "InputInvalid"
                               ELSE IF ShortTrimmed(req.content) THEN "CommentContentMissing"
                               ELSE "CommentPostForbidden"

\* a denied guest with valid name and email sent valid content for an
\* existing page
C3_Witness ==
  \E c \in Calls :
    /\ CreateDone(c) /\ call[c].result = "CommentPostForbidden"
    /\ WriteDenied(req) /\ ~ShortTrimmed(req.content) /\ req.user = GuestId


(***************************************************************************)
(* The lifecycle claims, under Spec.                                       *)
(***************************************************************************)
\* the capability an operation needs
CapOf(op) == IF op = "create" THEN "write:comments" ELSE "manage:comments"

\* the gate grants the call of frame f its capability on the page it loaded
Granted(f) ==
  /\ f.page \in PageIds
  /\ checkAccess(f.user, CapOf(f.op), PagePath(f.page), PageLocale(f.page))

Denials == {"PageNotFound", "CommentNotFound", "CommentPostForbidden", "CommentManageForbidden"}

\* the mutation of slot c is carried out in this step
Mutates(c) ==
  /\ call[c].pc \in {"cInsert", "uPatch", "dRemove"}
  /\ call'[c].pc # call[c].pc
  /\ call'[c].result # "ProviderFailure"

\* C4, in every state: a call that invoked a provider mutation method had
\* loaded its page and was granted its capability; a call that failed on
\* the page lookup or at the gate invoked none, started no IndexSync run
\* and sent no notification.
C4_State ==
  \A c \in Calls :
    /\ call[c].pcall # NoCall => Granted(call[c])
    /\ call[c].result \in Denials =>
         call[c].pcall = NoCall /\ call[c].runs = 0 /\ call[c].sends = 0
                                /\ ix[c] = NoRun /\ call[c].mail = NoMail

\* C4, in every step: the stored comments change only in the mutation step
\* of a call that was granted its capability on a page it found, and the
\* step in which a call fails leaves comments and pages as they are.
C4_Step ==
  /\ comments' # comments => \E c \in Calls : Mutates(c) /\ Granted(call[c])
  /\ \A c \in Calls :
       (call'[c].result \in Denials /\ call[c].result = "none") =>
         comments' = comments /\ pages' = pages

\* C4: provider mutations happen only behind a found page and a granted
\* capability; a page that is absent or a gate that denies leaves storage,
\* IndexSync and notification untouched.
C4_GatedMutation == []C4_State /\ [][C4_Step]_vars

\* a delete of an existing comment was denied: the comment is still stored
C4_Witness ==
  \E c \in Calls :
    /\ call[c].op = "delete" /\ call[c].result = "CommentManageForbidden"
    /\ call[c].id \in DOMAIN comments

C6_SideEffectFailureIsolated ==
  \A c \in Calls : (call[c].pc = "done" /\ call[c].committed) => call[c].result = "Ok"

\* C7: a delete whose remove succeeded has started one IndexSync run and
\* sent no notification.
C7_DeleteTriggersIndex ==
  \A c \in Calls :
    (call[c].op = "delete" /\ call[c].pc = "done" /\ call[c].result = "Ok") =>
      call[c].runs = 1 /\ call[c].sends = 0

\* C8: a call has invoked WIKI.mail.send once if it is a create that
\* returned, and not at all otherwise; the message goes to the configured
\* recipient alone.
C8_NotifyOncePerCreate ==
  \A c \in Calls :
    /\ call[c].sends =
         IF call[c].op = "create" /\ call[c].pc = "done" /\ call[c].result = "Ok"
         THEN 1 ELSE 0
    /\ (call[c].mail # NoMail) = (call[c].sends = 1)
    /\ call[c].mail # NoMail => call[c].mail.opts.to = <<NotifyEmail>>

\* a create returned and its one message was handed to the mailer; a
\* comment is stored
C8_Witness ==
  \E c \in Calls :
    /\ call[c].op = "create" /\ call[c].result = "Ok" /\ call[c].sends = 1
    /\ call[c].cid \in DOMAIN comments

\* C9: every stored comment has content of trimmed length >= 2.
C9_PersistedContentValid ==
  \A i \in DOMAIN comments : ~ShortTrimmed(comments[i].content)

\* C10, in every state of an update or delete: CommentNotFound means no
\* page id was found, PageNotFound that one was and the page was not,
\* ManageForbidden that the page was found and the gate denied; the
\* provider is invoked only past all three, with the id of the call and
\* the page it loaded.
C10_State ==
  \A c \in Calls :
    LET f == call[c] IN
    f.op \in {"update", "delete"} =>
      /\ f.result = "CommentNotFound" => f.pageId = 0 /\ f.page = 0 /\ f.pcall = NoCall
      /\ f.result = "PageNotFound" => f.pageId # 0 /\ f.page = 0 /\ f.pcall = NoCall
      /\ f.result = "CommentManageForbidden" =>
           f.pageId # 0 /\ f.page = f.pageId /\ ~Granted(f) /\ f.pcall = NoCall
      /\ f.pcall # NoCall =>
           /\ f.pageId # 0 /\ f.page = f.pageId /\ Granted(f)
           /\ f.pcall.method = (IF f.op = "update" THEN "update" ELSE "remove")
           /\ f.pcall.id = f.id /\ f.pcall.page = f.page

\* C10, in every step: the lookup step ends in CommentNotFound exactly when
\* the comment has no row; the page step ends in PageNotFound exactly when
\* the page is absent, and otherwise in ManageForbidden exactly when the
\* gate denies manage:comments.
C10_Step ==
  \A c \in Calls :
    /\ (call[c].pc \in {"uPid", "dPid"} /\ call'[c].pc # call[c].pc) =>
         /\ (call'[c].result = "CommentNotFound") = (call[c].id \notin DOMAIN comments)
         /\ call'[c].result \in {"none", "CommentNotFound"}
    /\ (call[c].pc \in {"uLoad", "dLoad"} /\ call'[c].pc # call[c].pc) =>
         call'[c].result =
           IF call[c].pageId \notin DOMAIN pages THEN "PageNotFound"
           ELSE IF <<call[c].user, "manage:comments">> \notin grants
           THEN "CommentManageForbidden" ELSE "none"

\* C10: update and delete fail in the order CommentNotFound, PageNotFound,
\* ManageForbidden, and invoke the provider only otherwise.
C10_ErrorOrder == []C10_State /\ [][C10_Step]_vars

\* an update found its comment and not the page of the comment
C10_Witness ==
  \E c \in Calls :
    /\ call[c].op = "update" /\ call[c].result = "PageNotFound"
    /\ call[c].id \in DOMAIN comments

(***************************************************************************)
(* Timestamps, IndexSync and notification claims, under Spec.              *)
(***************************************************************************)
\* C11, in every step: a row that appears has createdAt = updatedAt, and a
\* row whose content or updatedAt is rewritten by an update gets an
\* updatedAt strictly after its createdAt.
C11_Step ==
  \A i \in DOMAIN comments' :
    /\ i \notin DOMAIN comments => comments'[i].createdAt = comments'[i].updatedAt
    /\ (i \in DOMAIN comments /\ \E c \in Calls : call[c].pc = "uPatch" /\ call'[c].pc = "auFind"
                                                  /\ call[c].pcall.id = i) =>
         comments'[i].updatedAt > comments'[i].createdAt

\* C11: createdAt = updatedAt at creation and updatedAt > createdAt after
\* every successful update, whatever the clock does between two reads.
C11_TimestampsOrdered == [][C11_Step]_vars

\* the comment a create or update call mutates: the id it inserted, or the
\* id it was given
MutatedId(f) == IF f.op = "create" THEN f.cid ELSE f.id

\* C12, in every state of a create or update: a run has been started only
\* if the mutation is committed, at most one has been, and a call that
\* returned started exactly one, which pushed the snapshot of the page the
\* call had loaded.
C12_State ==
  \A c \in Calls :
    LET f == call[c] IN
    f.op \in {"create", "update"} =>
      /\ f.runs <= 1
      /\ (f.runs > 0 \/ ix[c] # NoRun) => f.committed
      /\ (f.pc = "done" /\ f.result = "Ok") =>
           f.runs = 1 /\ ix[c].pc = "ok" /\ ix[c].pushed[1] = f.page

\* C12, in every step: the step that commits the mutation of a call finds
\* no run of that call started before it, and the step that starts the run
\* of a create or update finds the mutation committed and starts the run
\* for the page of the row the call mutated.
C12_Step ==
  \A c \in Calls :
    LET f == call[c]
        g == call'[c] IN
    /\ Mutates(c) => f.runs = 0 /\ ix[c] = NoRun
    /\ (g.op \in {"create", "update"} /\ g.runs > f.runs) =>
         /\ g.committed /\ g.runs = 1
         /\ ix'[c].pc = "query"
         /\ MutatedId(g) \in DOMAIN comments' =>
              ix'[c].pageId = comments'[MutatedId(g)].pageId /\ ix'[c].pageId = g.page

\* C12: IndexSync starts only after the commit of the mutation that
\* triggers it, and a successful create or update triggers one run, for
\* the page that owns the mutated comment.
C12_IndexAfterCommit == []C12_State /\ [][C12_Step]_vars

\* an update returned: it had committed its patch and its one run pushed
\* the snapshot of the comment's page
C12_Witness ==
  \E c \in Calls :
    /\ call[c].op = "update" /\ call[c].pc = "done" /\ call[c].result = "Ok"
    /\ call[c].committed /\ call[c].runs = 1
    /\ call[c].id \in DOMAIN comments
    /\ ix[c].pushed[1] = comments[call[c].id].pageId

\* the page has no stored comment
NoComments(pid) == \A i \in DOMAIN comments : comments[i].pageId # pid

\* C13, in every step of a run: when the query finds no comment for the
\* page the run ends there, having pushed nothing, and no step of a run
\* that holds an empty result changes the page.
C13_Step ==
  \A c \in Calls :
    /\ (ix[c].pc = "query" /\ ix'[c].pc # "query" /\ NoComments(ix[c].pageId)) =>
         ix'[c] = Settle("ok", "none")
    /\ (ix[c].pc = "patch" /\ ix[c].existing = <<>> /\ ix'[c].pc # "patch") =>
         pages' = pages

\* C13: IndexSync for a page without comments is a no-op: the page's
\* metadata bag keeps its extra.comment snapshot and nothing is pushed to
\* the search index.
C13_EmptyIsNoOp == [][C13_Step]_vars

\* the ids of the page's rows, newest first, rows of equal createdAt by id
\* descending
IdsNewestFirst(pid) ==
  CHOOSE p \in Perms({i \in DOMAIN comments : comments[i].pageId = pid}) :
    \A i, j \in 1..Len(p) :
      i < j => \/ comments[p[i]].createdAt > comments[p[j]].createdAt
               \/ comments[p[i]].createdAt = comments[p[j]].createdAt /\ p[i] > p[j]

\* the snapshot the specification asks for: the content of each stored
\* comment of the page, in that order
Snapshot(pid) == cArray(IdsNewestFirst(pid))

\* C14, in the patch step and in the push step of a run for a page with
\* comments, no call being between its write and its run's read: the
\* page's extra.comment after the patch, and the list handed to the search
\* engine, are the contents of the stored comments, newest first, ties by
\* id descending.
C14_Step ==
  \A c \in Calls :
    LET pid == ix[c].pageId IN
    (~NoComments(pid) /\ pid \in DOMAIN pages) =>
      /\ (ix[c].pc = "patch" /\ ix'[c].pc = "upd") =>
           pages'[pid].extra.comment = Snapshot(pid)
      /\ (ix[c].pc = "push" /\ ix'[c].pc = "ok") =>
           ix'[c].pushed = <<pid, Snapshot(pid)>>

\* C14: an IndexSync run without interleaved writes replaces extra.comment
\* by the contents of all stored comments of the page, ordered by creation
\* time descending and then id descending, and pushes that list.
C14_FullReplaceOrdered == [][C14_Step]_vars

\* C15, in the patch step of a run that directly follows a resolved run for
\* the same page: the patch leaves the page's metadata bag as the first run
\* left it, the order of extra.comment included.
C15_Step ==
  \A c \in Calls :
    (ix[c].again /\ ix[c].pc = "patch" /\ ix'[c].pc = "upd"
       /\ ix[c].pageId \in DOMAIN pages) =>
      pages'[ix[c].pageId].extra = pages[ix[c].pageId].extra

\* C15: IndexSync is idempotent: a second run with no write in between
\* leaves the snapshot of the first, also when comments share a creation
\* timestamp.
C15_Idempotent == [][C15_Step]_vars

\* C16, in the patch step of a run: the patch changes no field of the
\* page's metadata bag but the comment snapshot, so a value another writer
\* stored in another field after the run read the page is still there.
C16_Step ==
  \A c \in Calls :
    (ix[c].pc = "patch" /\ ix'[c].pc = "upd" /\ ix[c].pageId \in DOMAIN pages) =>
      pages'[ix[c].pageId].extra.other = pages[ix[c].pageId].extra.other

\* C16: the write of IndexSync is limited to the comment-snapshot field: a
\* different field of extra changed by another writer during the run keeps
\* the other writer's value.
C16_PatchLimitedToSnapshot == [][C16_Step]_vars

(***************************************************************************)
(* The guest validation claim, under SpecCreate.                           *)
(***************************************************************************)
EmailMessages == {"Email is not a valid email", "Email is too long"}
NameMessages == {"Name can't be blank", "Name is too short", "Name is too long"}

\* C17: a guest's create with an invalid email fails with InputInvalid and
\* an email message, also when the name is invalid too; with a valid email
\* and an invalid name it fails with InputInvalid and a name message; a
\* registered user's create never fails with InputInvalid, and the user
\* object handed to the provider carries guestName and guestEmail for the
\* guest only.
C17_EmailRuleFirst ==
  \A c \in Calls :
    LET f == call[c] IN
    /\ CreateDone(c) =>
         /\ (req.user = GuestId /\ ~EmailValid(req.guestEmail)) =>
              f.result = "InputInvalid" /\ f.msg \in EmailMessages
         /\ (req.user = GuestId /\ EmailValid(req.guestEmail) /\ ~NameValid(req.guestName)) =>
              f.result = "InputInvalid" /\ f.msg \in NameMessages
         /\ req.user # GuestId => f.result # "InputInvalid" /\ f.msg = ""
    /\ (f.pcall # NoCall /\ f.pc # "done") =>
         f.pcall.user =
           IF req.user = GuestId
           THEN [UserRec(GuestId) EXCEPT !.name = req.guestName, !.email = req.guestEmail]
           ELSE UserRec(req.user)

\* a guest whose email and name are both invalid got the email message
C17_Witness ==
  \E c \in Calls :
    /\ CreateDone(c) /\ call[c].result = "InputInvalid"
    /\ call[c].msg = "Email is not a valid email"
    /\ req.user = GuestId /\ ~EmailValid(req.guestEmail) /\ ~NameValid(req.guestName)

(***************************************************************************)
(* The order of IndexSync and notification on create, under Spec.          *)
(***************************************************************************)
\* C19, in every state of a create: sendNotify has been called, or a
\* message handed to the mailer, only if the run of the insert resolved;
\* a create whose run failed has ended with the run's error and sent
\* nothing.
C19_State ==
  \A c \in Calls :
    LET f == call[c] IN
    f.op = "create" =>
      /\ (f.pc = "nLoad" \/ f.sends > 0 \/ f.mail # NoMail) => ix[c].pc = "ok"
      /\ ix[c].pc = "fail" => f.sends = 0 /\ f.mail = NoMail
      /\ (ix[c].pc = "fail" /\ f.pc = "done") => f.result \in {"TypeError", "SearchFailure"}

\* C19, in every step: the step that hands a message to the mailer finds
\* the run of the same insert resolved.
C19_Step ==
  \A c \in Calls : call'[c].sends > call[c].sends => ix[c].pc = "ok" /\ call[c].op = "create"

\* C19: on create the notification is dispatched only after the IndexSync
\* run of the insert completed successfully, and not at all when it failed.
C19_NotifyAfterIndex == []C19_State /\ [][C19_Step]_vars

\* a create committed its insert, its run failed, and the call ended
\* without a notification
C19_Witness ==
  \E c \in Calls :
    /\ call[c].op = "create" /\ call[c].committed /\ call[c].pc = "done"
    /\ ix[c].pc = "fail" /\ call[c].sends = 0
    /\ call[c].cid \in DOMAIN comments

(***************************************************************************)
(* SpecRace: two call slots, each serving one create or update of the      *)
(* administrator on the page, one after the other or overlapping, on a     *)
(* table that is empty or holds one comment whose snapshot is written.     *)
(***************************************************************************)
\* number of calls of the race
MaxRaceCalls == 2

RaceCalls == 1..MaxRaceCalls

\* the comment "aa" of page 1, stored at clock value 1
StoredRow == [pageId |-> 1, content |-> <<"a", "a">>, createdAt |-> 1, updatedAt |-> 1]

InitRace ==
  /\ \E n \in {0, 1} :
       /\ comments = [i \in 1..n |-> StoredRow]
       /\ nextId = n + 1
       /\ pages = [p \in PageIds |->
                     [extra |-> [EmptyExtra EXCEPT !.comment = [i \in 1..n |-> StoredRow.content]]]]
  /\ now = 1
  /\ call = [c \in RaceCalls |-> Idle]
  /\ ix = [c \in RaceCalls |-> NoRun]
  /\ req = NoReq
  /\ grants = DefaultGrants

RaceCreate(c) ==
  /\ call[c].pc = "idle"
  /\ \E content \in Contents : postNewComment(c, 1, 1, content, NameGood, EmailGood)

RaceUpdate(c) ==
  /\ call[c].pc = "idle"
  /\ \E id \in 1..MaxComments, content \in Contents : updateComment(c, 1, id, content)

NextRace ==
  \/ \E c \in RaceCalls :
       \/ RaceCreate(c) \/ CreateLoadPage(c) \/ ProviderCreate(c) \/ ProviderFails(c)
       \/ AfterInsertIndexed(c) \/ SendNotify(c)
       \/ RaceUpdate(c) \/ UpdateResolve(c) \/ UpdateLoadPage(c) \/ ProviderUpdate(c)
       \/ AfterUpdateFind(c) \/ AfterUpdateResolve(c) \/ AfterUpdateIndexed(c)
       \/ IndexQuery(c) \/ IndexPage(c) \/ IndexPatch(c) \/ IndexReadUpdated(c)
       \/ IndexRender(c) \/ IndexPush(c) \/ IndexPushFails(c)
  \/ Tick

SpecRace == InitRace /\ [][NextRace]_vars

\* no call is in flight and no run is pending
Quiescent == \A c \in DOMAIN call : call[c].pc \in {"idle", "done"} /\ ~Running(c)

\* the page's extra.comment lists the contents of the comments stored for
\* the page, in an order the query can return
SnapshotCurrent(pid) ==
  \E p \in existingComments(pid) : pages[pid].extra.comment = cArray(p)

\* C18 as stated: once every call and every run has finished, the page's
\* extra.comment is the list of the contents of the comments then stored
\* for the page, whether the calls overlapped or not.
C18_SnapshotCurrent ==
  Quiescent => \A pid \in DOMAIN pages : SnapshotCurrent(pid)

\* C18 as amended, in every state: once every call and every run has
\* finished, extra.comment lists the contents of the stored comments if no
\* call started while another was in flight.
C18_State ==
  (Quiescent /\ \A c \in DOMAIN call : ~call[c].overlaps) =>
    \A pid \in DOMAIN pages : SnapshotCurrent(pid)

\* C18 as amended, in every step: a run reads the stored comments of its
\* page at its query, and its patch writes the list it read then, whatever
\* was committed or patched since.
C18_Step ==
  \A c \in DOMAIN call :
    /\ (ix[c].pc = "query" /\ ix'[c].pc = "page") =>
         \E p \in existingComments(ix[c].pageId) : ix'[c].existing = cArray(p)
    /\ (ix[c].pc = "patch" /\ ix'[c].pc = "upd" /\ ix[c].pageId \in DOMAIN pages) =>
         pages'[ix[c].pageId].extra.comment = ix[c].existing

\* C18 as amended: after creates and updates that did not overlap the
\* snapshot is that of the final storage state; each run patches the list
\* it read at its own read time, so with overlapping calls the run that
\* patches last decides, and it may have read before the last commit.
C18_LastPatchWins == []C18_State /\ [][C18_Step]_vars

\* two calls that did not overlap have committed and returned, and the
\* snapshot lists both stored comments
C18_Witness ==
  /\ Quiescent
  /\ \A c \in DOMAIN call : call[c].result = "Ok" /\ call[c].committed /\ ~call[c].overlaps
  /\ Len(pages[1].extra.comment) = 2
  /\ SnapshotCurrent(1)

====
